---- MODULE Spec2Model ----
(***************************************************************************)
(* State-machine model of src/app.js: the account table and its           *)
(* tokens.json snapshot, the OAuth callback and token-refresh handlers,    *)
(* the player-instance registry with launch and stop, and the SIGINT       *)
(* cleanup.  Every await of a handler is a suspension point: a handler     *)
(* is one action up to its first await and one action per continuation.    *)
(***************************************************************************)
EXTENDS Integers, Sequences, FiniteSets, TLC

VARIABLES
    accounts,         \* let accounts = {}        name -> account record
    persisted,        \* contents of tokens.json  name -> serialized record
    playerInstances,  \* new Map()                entries in insertion order
    browsers,         \* the external browser processes puppeteer has started
    reqs,             \* the suspended request handlers (one slot each)
    shutdown,         \* the SIGINT handler's position
    server,           \* "running" | "exited" | "crashed"
    now,              \* Date.now()
    nreq,             \* number of requests the clients still send
    last              \* the step taken last: what was answered, to whom

vars == <<accounts, persisted, playerInstances, browsers, reqs, shutdown,
          server, now, nreq, last>>

-----------------------------------------------------------------------------
(* Bounds of the model *)

MaxInFlight == 2
MaxRequests == 4
MaxSequential == 6
MaxTicks == 1
MaxBrowsers == 2

(* Program constants *)

DefaultExpiresIn == 3600

\* const bufferTime = 5 * 60 * 1000
bufferTime == 5 * 60 * 1000

\* the clock of the model: it starts at one tick and advances by one tick
TickMs == bufferTime
StartTime == TickMs

-----------------------------------------------------------------------------
(* JavaScript values *)

Undefined == "undefined"
Null == "null"
UndefinedNum == -1      \* a number-typed slot holding undefined
NonString == "<non-string>"
NonNumeric == -2

\* !x for a string-typed slot
Truthy(x) == x # Undefined /\ x # Null /\ x # ""
\* !x for a number-typed slot
TruthyNum(x) == x # UndefinedNum /\ x # 0
\* typeof x === 'string'
IsString(x) == x # Undefined /\ x # Null /\ x # NonString
\* typeof x === 'number'
IsNumber(x) == x >= 0

Names == {"kitchen", "office"}

DefaultRedirectUri == "http://localhost:3000/callback"

\* request bodies of POST /api/accounts
RegisterBodies ==
    {[name |-> n, clientId |-> "X", clientSecret |-> "Y", redirectUri |-> Undefined] : n \in Names}
    \cup {[name |-> "kitchen", clientId |-> "X2", clientSecret |-> "Y2", redirectUri |-> "http://ha/cb"],
          [name |-> Undefined, clientId |-> "X", clientSecret |-> "Y", redirectUri |-> Undefined],
          [name |-> "office", clientId |-> "X", clientSecret |-> Undefined, redirectUri |-> Undefined]}

\* request bodies of POST /api/players/:name/launch
LaunchBodies ==
    {[displayName |-> Undefined, audioDestination |-> Undefined],
     [displayName |-> "Speaker", audioDestination |-> "hdmi"]}

\* query strings of GET /callback
CallbackCodes == {Undefined, "code"}
CallbackStates == Names \cup {Undefined}

\* what the token endpoint of the provider can answer
ProviderOutcomes ==
    {[kind |-> "transportError"], [kind |-> "httpError"], [kind |-> "badJson"],
     [kind |-> "null"],
     [kind |-> "body", access_token |-> "tok1", refresh_token |-> "ref1", expires_in |-> 600],
     [kind |-> "body", access_token |-> "tok2", refresh_token |-> "ref2", expires_in |-> 100],
     [kind |-> "body", access_token |-> "tok2", refresh_token |-> Undefined, expires_in |-> NonNumeric],
     [kind |-> "body", access_token |-> NonString, refresh_token |-> Undefined, expires_in |-> 600],
     [kind |-> "body", access_token |-> "tok1", refresh_token |-> Undefined, expires_in |-> 100],
     [kind |-> "body", access_token |-> "tok2", refresh_token |-> "", expires_in |-> 100]}

\* fetch rejects, response.ok is false, or response.json() rejects
Throws(o) == o.kind \in {"transportError", "httpError", "badJson"}

-----------------------------------------------------------------------------
(* The account table and tokens.json *)

Has(tbl, n) == n \in DOMAIN tbl

\* accounts[name] = record
Put(tbl, n, rec) == [m \in DOMAIN tbl \cup {n} |-> IF m = n THEN rec ELSE tbl[m]]

\* account.expiresAt (the key is absent until the first exchange)
ExpiresAtOf(acc) == IF "expiresAt" \in DOMAIN acc THEN acc.expiresAt ELSE UndefinedNum

\* JSON.stringify of one record: its values in key order; a key that is
\* absent produces no text
StringifyRecord(acc) ==
    <<acc.name, acc.clientId, acc.clientSecret, acc.redirectUri,
      acc.authenticated, acc.token, acc.refreshToken>>
    \o (IF "expiresAt" \in DOMAIN acc THEN <<acc.expiresAt>> ELSE <<>>)

JSONStringify(tbl) == [n \in DOMAIN tbl |-> StringifyRecord(tbl[n])]

ParseRecord(txt) ==
    LET base == [name |-> txt[1], clientId |-> txt[2], clientSecret |-> txt[3],
                 redirectUri |-> txt[4], authenticated |-> txt[5],
                 token |-> txt[6], refreshToken |-> txt[7]]
    IN  IF Len(txt) > 7
        THEN [f \in DOMAIN base \cup {"expiresAt"} |->
                 IF f = "expiresAt" THEN txt[8] ELSE base[f]]
        ELSE base

JSONParse(file) == [n \in DOMAIN file |-> ParseRecord(file[n])]

\* saveTokens(): fs.writeFileSync(TOKENS_FILE, JSON.stringify(accounts))
saveTokens(tbl) == JSONStringify(tbl)

EmptyTable == [n \in {} |-> Undefined]

-----------------------------------------------------------------------------
(* The instance registry: a Map, i.e. its entries in insertion order *)

MapHas(m, n) == \E i \in 1..Len(m) : m[i].name = n
MapIndex(m, n) == CHOOSE i \in 1..Len(m) : m[i].name = n
MapGet(m, n) == m[MapIndex(m, n)]
\* Map.prototype.set: an existing key keeps its position
MapSet(m, n, e) ==
    IF MapHas(m, n) THEN [m EXCEPT ![MapIndex(m, n)] = e] ELSE Append(m, e)
\* a delete that removes nothing
MapDeleteNothing(m, n) == m
\* Map.prototype.delete
MapDelete(m, n) ==
    IF MapHas(m, n)
    THEN LET k == MapIndex(m, n) IN SubSeq(m, 1, k - 1) \o SubSeq(m, k + 1, Len(m))
    ELSE m

-----------------------------------------------------------------------------
(* Request slots *)

Idle == [kind |-> "idle"]
Slots == 1..MaxInFlight
FreeSlot(s) == reqs[s] = Idle /\ \A t \in Slots : t < s => reqs[t] # Idle
\* no handler is suspended at an await
AllIdle == \A s \in Slots : reqs[s] = Idle

Running == server = "running"
CanAccept == Running /\ nreq > 0

NoToken == "none"

\* what a step reports: the handler, the account it names, its answer
Answer(op, n, status, tok) == [op |-> op, name |-> n, status |-> status, token |-> tok]

\* the clock advances between steps
Tick ==
    /\ Running
    /\ now < StartTime + MaxTicks * TickMs
    /\ now' = now + TickMs
    /\ last' = Answer("tick", Undefined, "none", NoToken)
    /\ UNCHANGED <<accounts, persisted, playerInstances, browsers, reqs, shutdown, server, nreq>>

-----------------------------------------------------------------------------
(* POST /api/accounts *)

NewAccount(body) ==
    [name |-> body.name, clientId |-> body.clientId, clientSecret |-> body.clientSecret,
     redirectUri |-> IF Truthy(body.redirectUri) THEN body.redirectUri ELSE DefaultRedirectUri,
     authenticated |-> FALSE, token |-> Null, refreshToken |-> Null]

\* !name || !clientId || !clientSecret
Incomplete(body) ==
    ~Truthy(body.name) \/ ~Truthy(body.clientId) \/ ~Truthy(body.clientSecret)

\* the duplicate check left out
AlreadyRegisteredSkipped(tbl, n) == FALSE

\* if (accounts[name])
AlreadyRegistered(tbl, n) == Has(tbl, n)

Register(body) ==
    /\ CanAccept
    /\ nreq' = nreq - 1
    /\ IF Incomplete(body)
       THEN /\ last' = Answer("register", body.name, "BadRequest", NoToken)
            /\ UNCHANGED <<accounts, persisted>>
       ELSE IF AlreadyRegistered(accounts, body.name)
       THEN /\ last' = Answer("register", body.name, "DuplicateAccount", NoToken)
            /\ UNCHANGED <<accounts, persisted>>
       ELSE /\ accounts' = Put(accounts, body.name, NewAccount(body))
            /\ persisted' = saveTokens(accounts')
            /\ last' = Answer("register", body.name, "ok", NoToken)
    /\ UNCHANGED <<playerInstances, browsers, reqs, shutdown, server, now>>

-----------------------------------------------------------------------------
(* GET /api/accounts *)

\* Object.keys(accounts).map(name => ({ name, authenticated, hasPlayer }))
accountList(tbl, m) ==
    {[name |-> n, authenticated |-> tbl[n].authenticated, hasPlayer |-> MapHas(m, n)] :
        n \in DOMAIN tbl}

-----------------------------------------------------------------------------
(* GET /callback?code=...&state=... *)

\* { ...acc, ...upd }
Assign(acc, upd) ==
    [f \in DOMAIN acc \cup DOMAIN upd |-> IF f \in DOMAIN upd THEN upd[f] ELSE acc[f]]

\* tokenData && typeof tokenData.access_token === 'string' ? tokenData.access_token : null
AccessTokenOf(o) ==
    IF o.kind = "body" /\ IsString(o.access_token) THEN o.access_token ELSE Null
\* tokenData && typeof tokenData.refresh_token === 'string' ? tokenData.refresh_token : null
RefreshTokenOf(o) ==
    IF o.kind = "body" /\ IsString(o.refresh_token) THEN o.refresh_token ELSE Null
\* tokenData && typeof tokenData.expires_in === 'number' ? tokenData.expires_in : 3600
ExpiresInOf(o) ==
    IF o.kind = "body" /\ IsNumber(o.expires_in) THEN o.expires_in ELSE DefaultExpiresIn

\* the handler up to "await exchangeCodeForToken(...)"
CallbackRequest(code, state) ==
    /\ CanAccept
    /\ nreq' = nreq - 1
    /\ IF ~Truthy(code) \/ ~Truthy(state) \/ ~Has(accounts, state)
       THEN /\ last' = Answer("callback", state, "BadRequest", NoToken)
            /\ UNCHANGED reqs
       ELSE \E s \in Slots :
            /\ FreeSlot(s)
            /\ reqs' = [reqs EXCEPT ![s] = [kind |-> "callback", name |-> state]]
            /\ last' = Answer("callback", state, "pending", NoToken)
    /\ UNCHANGED <<accounts, persisted, playerInstances, browsers, shutdown, server, now>>

\* an exchange that writes the record anew, with the default redirect URI
ExchangedResetsRedirectUri(acc, o, t) ==
    Assign(acc, [token |-> AccessTokenOf(o), refreshToken |-> RefreshTokenOf(o),
                 authenticated |-> TRUE, expiresAt |-> t + ExpiresInOf(o) * 1000,
                 redirectUri |-> DefaultRedirectUri])

\* the account after a code exchange that answered o
Exchanged(acc, o, t) ==
    Assign(acc, [token |-> AccessTokenOf(o), refreshToken |-> RefreshTokenOf(o),
                 authenticated |-> TRUE, expiresAt |-> t + ExpiresInOf(o) * 1000])

\* the account table an earlier run of the process left in tokens.json, after
\* two accounts were registered and authenticated
EarlierRun ==
    Put(Put(EmptyTable, "kitchen",
            Exchanged(NewAccount([name |-> "kitchen", clientId |-> "X", clientSecret |-> "Y",
                                  redirectUri |-> Undefined]),
                      [kind |-> "body", access_token |-> "tok1", refresh_token |-> "ref1",
                       expires_in |-> 600], StartTime)),
        "office",
        Exchanged(NewAccount([name |-> "office", clientId |-> "X", clientSecret |-> "Y",
                              redirectUri |-> Undefined]),
                  [kind |-> "body", access_token |-> "tok2", refresh_token |-> "ref2",
                   expires_in |-> 100], StartTime))

\* the variables other than the account table when the process starts
Started ==
    /\ playerInstances = <<>>
    /\ browsers = <<>>
    /\ reqs = [s \in Slots |-> Idle]
    /\ shutdown = [pc |-> "idle", idx |-> 0, browser |-> 0, live |-> {}]
    /\ server = "running"
    /\ now = StartTime
    /\ last = Answer("init", Undefined, "none", NoToken)

\* accounts = JSON.parse(fs.readFileSync(TOKENS_FILE, 'utf8'))
LoadTokens(file) == JSONParse(file)

\* the first start: there is no tokens.json
Init ==
    /\ persisted = saveTokens(EmptyTable)
    /\ accounts = LoadTokens(persisted)
    /\ Started
    /\ nreq = MaxRequests

\* the first start, with clients that send one request after the other
InitSequential ==
    /\ persisted = saveTokens(EmptyTable)
    /\ accounts = LoadTokens(persisted)
    /\ Started
    /\ nreq = MaxSequential

\* a later start: tokens.json is what the earlier run wrote
InitRestart ==
    /\ persisted = saveTokens(EarlierRun)
    /\ accounts = LoadTokens(persisted)
    /\ Started
    /\ nreq = MaxRequests

\* the continuation with the catch block left out: whatever the exchange
\* gave is stored
CallbackDoneStoresAnyOutcome(s, o) ==
    /\ Running
    /\ reqs[s].kind = "callback"
    /\ LET n == reqs[s].name IN
       /\ accounts' = Put(accounts, n, Exchanged(accounts[n], o, now))
       /\ persisted' = saveTokens(accounts')
       /\ last' = Answer("callback", n, "ok", NoToken)
    /\ reqs' = [reqs EXCEPT ![s] = Idle]
    /\ UNCHANGED <<playerInstances, browsers, shutdown, server, now, nreq>>

\* the continuation after the exchange settled with outcome o
CallbackDone(s, o) ==
    /\ Running
    /\ reqs[s].kind = "callback"
    /\ LET n == reqs[s].name IN
       IF Throws(o)
       THEN /\ last' = Answer("callback", n, "ExchangeFailed", NoToken)
            /\ UNCHANGED <<accounts, persisted>>
       ELSE /\ accounts' = Put(accounts, n, Exchanged(accounts[n], o, now))
            /\ persisted' = saveTokens(accounts')
            /\ last' = Answer("callback", n, "ok", NoToken)
    /\ reqs' = [reqs EXCEPT ![s] = Idle]
    /\ UNCHANGED <<playerInstances, browsers, shutdown, server, now, nreq>>

-----------------------------------------------------------------------------
(* GET /api/accounts/:name/token *)

\* !account.authenticated || !account.token
NotAuthenticated(acc) == ~acc.authenticated \/ ~Truthy(acc.token)

\* the freshness check with the buffer left out
NeedsRefreshNoBuffer(acc, t) ==
    TruthyNum(ExpiresAtOf(acc)) /\ t >= ExpiresAtOf(acc)

\* account.expiresAt && (now + bufferTime) >= account.expiresAt
NeedsRefresh(acc, t) ==
    TruthyNum(ExpiresAtOf(acc)) /\ t + bufferTime >= ExpiresAtOf(acc)

\* the handler up to "await refreshAccessToken(...)", or to its answer
TokenRequest(n) ==
    /\ CanAccept
    /\ nreq' = nreq - 1
    /\ IF ~Has(accounts, n)
       THEN /\ last' = Answer("token", n, "AccountNotFound", NoToken)
            /\ UNCHANGED reqs
       ELSE IF NotAuthenticated(accounts[n])
       THEN /\ last' = Answer("token", n, "NotAuthenticated", NoToken)
            /\ UNCHANGED reqs
       ELSE IF NeedsRefresh(accounts[n], now)
       THEN IF ~Truthy(accounts[n].refreshToken)
            THEN /\ last' = Answer("token", n, "NoRefreshToken", NoToken)
                 /\ UNCHANGED reqs
            ELSE \E s \in Slots :
                 /\ FreeSlot(s)
                 /\ reqs' = [reqs EXCEPT ![s] =
                        [kind |-> "token", name |-> n,
                         refreshToken |-> accounts[n].refreshToken]]
                 /\ last' = Answer("token", n, "pending", NoToken)
       ELSE /\ last' = Answer("token", n, "ok", accounts[n].token)
            /\ UNCHANGED reqs
    /\ UNCHANGED <<accounts, persisted, playerInstances, browsers, shutdown, server, now>>

\* a refresh that stores the new token and leaves expiresAt for later
RefreshedTokenOnly(acc, o, t) == Assign(acc, [token |-> AccessTokenOf(o)])

\* a refresh that stores its response only if it expires later than what
\* is stored
RefreshedIfNewer(acc, o, t) ==
    IF t + ExpiresInOf(o) * 1000 > ExpiresAtOf(acc)
    THEN Assign(acc, [token |-> AccessTokenOf(o), expiresAt |-> t + ExpiresInOf(o) * 1000])
    ELSE acc

\* accounts[name] = { ...accounts[name], token: accessToken, expiresAt: ... }
Refreshed(acc, o, t) ==
    Assign(acc, [token |-> AccessTokenOf(o), expiresAt |-> t + ExpiresInOf(o) * 1000])

\* the refresh token of the response stored whatever it is
WithRefreshTokenAlways(acc, o) ==
    [acc EXCEPT !.refreshToken =
        IF o.refresh_token = Undefined THEN Null ELSE o.refresh_token]

\* if (tokenData.refresh_token && typeof ... === 'string') accounts[name].refreshToken = ...
WithRefreshToken(acc, o) ==
    IF Truthy(o.refresh_token) /\ IsString(o.refresh_token)
    THEN [acc EXCEPT !.refreshToken = o.refresh_token]
    ELSE acc

\* the continuation after the refresh settled with outcome o
TokenRefreshDone(s, o) ==
    /\ Running
    /\ reqs[s].kind = "token"
    /\ LET n == reqs[s].name IN
       IF Throws(o)
       THEN /\ last' = Answer("refresh", n, "RefreshFailed", NoToken)
            /\ UNCHANGED <<accounts, persisted>>
       ELSE IF o.kind = "null"
       THEN \* the record is replaced, then tokenData.refresh_token throws
            \* a TypeError that the catch block answers
            /\ accounts' = Put(accounts, n, Refreshed(accounts[n], o, now))
            /\ last' = Answer("refresh", n, "RefreshFailed", NoToken)
            /\ UNCHANGED persisted
       ELSE /\ accounts' = Put(accounts, n,
                               WithRefreshToken(Refreshed(accounts[n], o, now), o))
            /\ persisted' = saveTokens(accounts')
            /\ last' = Answer("refresh", n, "ok", AccessTokenOf(o))
    /\ reqs' = [reqs EXCEPT ![s] = Idle]
    /\ UNCHANGED <<playerInstances, browsers, shutdown, server, now, nreq>>

-----------------------------------------------------------------------------
(* POST /api/players/:name/launch *)

\* the audio destination of the request stored as it came
AudioDestinationRaw(body) == body.audioDestination

\* audioDestination || 'default'
AudioDestinationOf(body) ==
    IF Truthy(body.audioDestination) THEN body.audioDestination ELSE "default"
\* displayName || name
DisplayNameOf(body, n) ==
    IF Truthy(body.displayName) THEN body.displayName ELSE n

\* the launch guard with the check of the account left out
LaunchNotAuthenticatedSkipped(acc) == FALSE

\* !account.authenticated || !account.token
LaunchNotAuthenticated(acc) == ~acc.authenticated \/ ~Truthy(acc.token)

\* the launch handler with the registry looked up before the account is
\* checked for a token
LaunchRequestRegistryFirst(n, body) ==
    /\ CanAccept
    /\ nreq' = nreq - 1
    /\ IF ~Has(accounts, n)
       THEN /\ last' = Answer("launch", n, "AccountNotFound", NoToken)
            /\ UNCHANGED reqs
       ELSE IF MapHas(playerInstances, n)
       THEN /\ last' = Answer("launch", n, "AlreadyRunning", NoToken)
            /\ UNCHANGED reqs
       ELSE IF LaunchNotAuthenticated(accounts[n])
       THEN /\ last' = Answer("launch", n, "NotAuthenticated", NoToken)
            /\ UNCHANGED reqs
       ELSE \E s \in Slots :
            /\ FreeSlot(s)
            /\ reqs' = [reqs EXCEPT ![s] =
                   [kind |-> "launch", pc |-> "starting", name |-> n,
                    token |-> accounts[n].token, browser |-> 0,
                    displayName |-> body.displayName,
                    audioDestination |-> body.audioDestination]]
            /\ last' = Answer("launch", n, "pending", accounts[n].token)
    /\ UNCHANGED <<accounts, persisted, playerInstances, browsers, shutdown, server, now>>

\* the handler up to "await puppeteer.launch(...)", or to its answer
LaunchRequest(n, body) ==
    /\ CanAccept
    /\ nreq' = nreq - 1
    /\ IF ~Has(accounts, n)
       THEN /\ last' = Answer("launch", n, "AccountNotFound", NoToken)
            /\ UNCHANGED reqs
       ELSE IF LaunchNotAuthenticated(accounts[n])
       THEN /\ last' = Answer("launch", n, "NotAuthenticated", NoToken)
            /\ UNCHANGED reqs
       ELSE IF MapHas(playerInstances, n)
       THEN /\ last' = Answer("launch", n, "AlreadyRunning", NoToken)
            /\ UNCHANGED reqs
       ELSE \E s \in Slots :
            /\ FreeSlot(s)
            /\ reqs' = [reqs EXCEPT ![s] =
                   [kind |-> "launch", pc |-> "starting", name |-> n,
                    token |-> accounts[n].token, browser |-> 0,
                    displayName |-> body.displayName,
                    audioDestination |-> body.audioDestination]]
            /\ last' = Answer("launch", n, "pending", accounts[n].token)
    /\ UNCHANGED <<accounts, persisted, playerInstances, browsers, shutdown, server, now>>

\* puppeteer.launch resolved: an external process now runs; the handler
\* goes on to await newPage / evaluateOnNewDocument / goto
LaunchBrowserStarted(s) ==
    /\ Running
    /\ reqs[s].kind = "launch" /\ reqs[s].pc = "starting"
    /\ Len(browsers) < MaxBrowsers
    /\ browsers' = Append(browsers, [name |-> reqs[s].name, token |-> reqs[s].token,
                                     alive |-> TRUE, closeCalled |-> FALSE])
    /\ reqs' = [reqs EXCEPT ![s].pc = "loading", ![s].browser = Len(browsers) + 1]
    /\ last' = Answer("launchStarted", reqs[s].name, "pending", reqs[s].token)
    /\ UNCHANGED <<accounts, persisted, playerInstances, shutdown, server, now, nreq>>

\* puppeteer.launch rejected: the catch block answers
LaunchBrowserFailed(s) ==
    /\ Running
    /\ reqs[s].kind = "launch" /\ reqs[s].pc = "starting"
    /\ reqs' = [reqs EXCEPT ![s] = Idle]
    /\ last' = Answer("launch", reqs[s].name, "LaunchFailed", NoToken)
    /\ UNCHANGED <<accounts, persisted, playerInstances, browsers, shutdown, server, now, nreq>>

\* the registry entry playerInstances.set stores
NewInstance(r, t) ==
    [name |-> r.name, browser |-> r.browser,
     audioDestination |-> AudioDestinationOf(r),
     displayName |-> DisplayNameOf(r, r.name), launchedAt |-> t]

\* launchPlayerInstance returned the browser: playerInstances.set and answer
LaunchPageLoaded(s) ==
    /\ Running
    /\ reqs[s].kind = "launch" /\ reqs[s].pc = "loading"
    /\ playerInstances' = MapSet(playerInstances, reqs[s].name, NewInstance(reqs[s], now))
    /\ reqs' = [reqs EXCEPT ![s] = Idle]
    /\ last' = Answer("launch", reqs[s].name, "ok", reqs[s].token)
    /\ UNCHANGED <<accounts, persisted, browsers, shutdown, server, now, nreq>>

\* newPage / evaluateOnNewDocument / goto rejected: the catch block answers,
\* the browser that was started stays as it is
LaunchPageFailed(s) ==
    /\ Running
    /\ reqs[s].kind = "launch" /\ reqs[s].pc = "loading"
    /\ reqs' = [reqs EXCEPT ![s] = Idle]
    /\ last' = Answer("launch", reqs[s].name, "LaunchFailed", NoToken)
    /\ UNCHANGED <<accounts, persisted, playerInstances, browsers, shutdown, server, now, nreq>>

-----------------------------------------------------------------------------
(* DELETE /api/players/:name *)

\* browser.close() has been called on process b
CloseCalled(bs, b) == [bs EXCEPT ![b].closeCalled = TRUE]
\* process b has terminated
Terminated(bs, b) == [bs EXCEPT ![b].alive = FALSE]

\* the iterator of the SIGINT loop after the entry of name n is deleted:
\* the entries behind it move up by one
IteratorAfterDelete(sd, m, n) ==
    IF MapHas(m, n) /\ MapIndex(m, n) <= sd.idx
    THEN [sd EXCEPT !.idx = sd.idx - 1]
    ELSE sd

\* the stop handler without its check of the registry: get() returns
\* undefined, instance.browser throws and the catch block answers
StopRequestUnchecked(n) ==
    /\ CanAccept
    /\ nreq' = nreq - 1
    /\ IF ~MapHas(playerInstances, n)
       THEN /\ last' = Answer("stop", n, "StopFailed", NoToken)
            /\ UNCHANGED <<reqs, browsers>>
       ELSE \E s \in Slots :
            /\ FreeSlot(s)
            /\ reqs' = [reqs EXCEPT ![s] =
                   [kind |-> "stop", name |-> n,
                    browser |-> MapGet(playerInstances, n).browser]]
            /\ browsers' = CloseCalled(browsers, MapGet(playerInstances, n).browser)
            /\ last' = Answer("stop", n, "pending", NoToken)
    /\ UNCHANGED <<accounts, persisted, playerInstances, shutdown, server, now>>

\* the handler up to "await instance.browser.close()", or to its answer
StopRequest(n) ==
    /\ CanAccept
    /\ nreq' = nreq - 1
    /\ IF ~MapHas(playerInstances, n)
       THEN /\ last' = Answer("stop", n, "NotRunning", NoToken)
            /\ UNCHANGED <<reqs, browsers>>
       ELSE \E s \in Slots :
            /\ FreeSlot(s)
            /\ reqs' = [reqs EXCEPT ![s] =
                   [kind |-> "stop", name |-> n,
                    browser |-> MapGet(playerInstances, n).browser]]
            /\ browsers' = CloseCalled(browsers, MapGet(playerInstances, n).browser)
            /\ last' = Answer("stop", n, "pending", NoToken)
    /\ UNCHANGED <<accounts, persisted, playerInstances, shutdown, server, now>>

\* close() resolved: playerInstances.delete(name) and answer
StopClosed(s) ==
    /\ Running
    /\ reqs[s].kind = "stop"
    /\ browsers' = Terminated(browsers, reqs[s].browser)
    /\ playerInstances' = MapDelete(playerInstances, reqs[s].name)
    /\ shutdown' = IteratorAfterDelete(shutdown, playerInstances, reqs[s].name)
    /\ reqs' = [reqs EXCEPT ![s] = Idle]
    /\ last' = Answer("stop", reqs[s].name, "ok", NoToken)
    /\ UNCHANGED <<accounts, persisted, server, now, nreq>>

\* close() rejected, with the process gone or not: the catch block answers
StopFailed(s, gone) ==
    /\ Running
    /\ reqs[s].kind = "stop"
    /\ browsers' = IF gone THEN Terminated(browsers, reqs[s].browser) ELSE browsers
    /\ reqs' = [reqs EXCEPT ![s] = Idle]
    /\ last' = Answer("stop", reqs[s].name, "StopFailed", NoToken)
    /\ UNCHANGED <<accounts, persisted, playerInstances, shutdown, server, now, nreq>>

-----------------------------------------------------------------------------
(* process.on('SIGINT') *)

LiveBrowsers(bs) == {b \in 1..Len(bs) : bs[b].alive}

\* the running processes the registry holds
LiveInstances ==
    {b \in LiveBrowsers(browsers) :
        \E i \in 1..Len(playerInstances) : playerInstances[i].browser = b}

\* one turn of "for (const [name, instance] of playerInstances)" from
\* iterator position idx, the processes being bs: close the next entry's
\* browser and suspend, or leave the loop and process.exit(0)
ShutdownStep(sd, idx, bs) ==
    IF idx < Len(playerInstances)
    THEN /\ shutdown' = [sd EXCEPT !.pc = "closing", !.idx = idx + 1,
                                   !.browser = playerInstances[idx + 1].browser]
         /\ browsers' = CloseCalled(bs, playerInstances[idx + 1].browser)
         /\ UNCHANGED server
    ELSE /\ shutdown' = [sd EXCEPT !.pc = "done", !.idx = idx, !.browser = 0]
         /\ browsers' = bs
         /\ server' = "exited"

\* the signal arrives (once); live records the instances running then
Sigint ==
    /\ Running
    /\ shutdown.pc = "idle"
    /\ ShutdownStep([shutdown EXCEPT !.live = LiveInstances], 0, browsers)
    /\ last' = Answer("sigint", Undefined, "none", NoToken)
    /\ UNCHANGED <<accounts, persisted, playerInstances, reqs, now, nreq>>

\* close() resolved: the loop goes on
ShutdownClosed ==
    /\ Running
    /\ shutdown.pc = "closing"
    /\ ShutdownStep(shutdown, shutdown.idx, Terminated(browsers, shutdown.browser))
    /\ last' = Answer("shutdown", Undefined, "none", NoToken)
    /\ UNCHANGED <<accounts, persisted, playerInstances, reqs, now, nreq>>

\* close() rejected, with the process gone or not: nothing catches the
\* rejection of the async listener, and node ends the process on it
ShutdownCloseFailed(gone) ==
    /\ Running
    /\ shutdown.pc = "closing"
    /\ browsers' = IF gone THEN Terminated(browsers, shutdown.browser) ELSE browsers
    /\ shutdown' = [shutdown EXCEPT !.pc = "failed"]
    /\ server' = "crashed"
    /\ last' = Answer("shutdown", Undefined, "failed", NoToken)
    /\ UNCHANGED <<accounts, persisted, playerInstances, reqs, now, nreq>>

-----------------------------------------------------------------------------
(* Properties *)

RegistryNames == {playerInstances[i].name : i \in 1..Len(playerInstances)}
LiveFor(n) == {b \in LiveBrowsers(browsers) : browsers[b].name = n}
LaunchAnswered == last.op = "launch" /\ last.status = "ok"

\* C1: of the launches for one account name that no stop separates, at most
\* one succeeds: a launch that succeeds never finds (and replaces) a registry
\* entry that another launch for the same name has inserted.
C1_SecondLaunchRejected ==
    [][(last'.op = "launch" /\ last'.status = "ok")
           => ~MapHas(playerInstances, last'.name)]_vars

\* C2: in every state at most one started and not yet terminated browser
\* process exists per account name.
C2_OneLiveProcessPerAccount ==
    \A n \in Names : Cardinality(LiveFor(n)) <= 1

\* C3: when a stop request for a registered name has been answered, with
\* success or with StopFailed, the registry holds no entry for that name.
C3_EntryRemovedAfterStop ==
    (last.op = "stop" /\ last.status \in {"ok", "StopFailed"})
        => ~MapHas(playerInstances, last.name)

\* C4: the step that answers a token request with RefreshFailed leaves every
\* account record (token, expiresAt, refreshToken) as it was.
C4_FailedRefreshKeepsAccount ==
    [][(last'.op = "refresh" /\ last'.status = "RefreshFailed")
           => accounts' = accounts]_vars

\* C5: the token a launch hands to the browser it starts is fresh at that
\* moment: now + buffer is before the account's expiresAt.
C5_LaunchTokenFresh ==
    (last.op = "launch" /\ last.status = "pending")
        => /\ last.token = accounts[last.name].token
           /\ now + bufferTime < ExpiresAtOf(accounts[last.name])

\* C6: every account with authenticated = true has a non-null token.
C6_AuthenticatedHasToken ==
    \A n \in DOMAIN accounts : accounts[n].authenticated => accounts[n].token # Null

\* C7: once the server process has ended after SIGINT, close() has been
\* called on the process of every instance that was registered and live
\* when the signal arrived, also when the close() of another one failed.
C7_ShutdownClosesEveryLiveProcess ==
    server \in {"exited", "crashed"}
        => \A b \in shutdown.live : browsers[b].closeCalled

\* C8: a token request answered with the stored token and without a refresh
\* call implies now + buffer < expiresAt at the time of the check.
C8_StoredTokenReturnedOnlyWhenFresh ==
    (last.op = "token" /\ last.status = "ok")
        => /\ last.token = accounts[last.name].token
           /\ now + bufferTime < ExpiresAtOf(accounts[last.name])

C8_Witness ==
    /\ last.op = "token" /\ last.status = "ok"
    /\ now > StartTime
    /\ now + bufferTime < ExpiresAtOf(accounts[last.name])

\* C9: no launch succeeds for an account whose authenticated flag is false,
\* and every name in the registry is an existing account with
\* authenticated = true.
C9_RegistryOnlyAuthenticated ==
    /\ \A n \in RegistryNames : Has(accounts, n) /\ accounts[n].authenticated
    /\ LaunchAnswered => Has(accounts, last.name) /\ accounts[last.name].authenticated

C9_Witness ==
    /\ LaunchAnswered
    /\ MapHas(playerInstances, last.name)
    /\ accounts[last.name].authenticated

\* C10: at every point where a handler has answered or is suspended,
\* reloading tokens.json reproduces the account table field for field.
C10_SnapshotEqualsAccounts ==
    JSONParse(persisted) = accounts

\* C11 (as stated): a registration for a name that is already present is
\* answered DuplicateAccount and changes neither the account table nor the
\* persisted snapshot.
C11_DuplicateAlwaysAnswered ==
    [][\A body \in RegisterBodies :
          (Register(body) /\ Has(accounts, body.name))
              => /\ last'.status = "DuplicateAccount"
                 /\ accounts' = accounts
                 /\ persisted' = persisted]_vars

\* C11 (amended): every name of the table maps to one record, of that name;
\* a registration for a name that is already present fails, with
\* DuplicateAccount when the body is complete and with BadRequest when
\* clientId or clientSecret is missing, and changes neither the account
\* table nor the persisted snapshot.
C11_DuplicateNeverOverwrites ==
    [][/\ \A n \in DOMAIN accounts' : accounts'[n].name = n
       /\ \A body \in RegisterBodies :
             (Register(body) /\ Has(accounts, body.name))
                 => /\ last'.status =
                          IF Incomplete(body) THEN "BadRequest" ELSE "DuplicateAccount"
                    /\ accounts' = accounts
                    /\ persisted' = persisted]_vars

C11_Witness ==
    /\ last.op = "register" /\ last.status = "DuplicateAccount"
    /\ accounts[last.name].authenticated
    /\ accounts[last.name].clientId = "X"

\* C12: a stop request for a name with no registry entry is answered
\* NotRunning, calls close() on no process, suspends nothing and leaves the
\* registry as it was.
C12_StopOfMissingInstance ==
    [][\A n \in Names :
          (StopRequest(n) /\ ~MapHas(playerInstances, n))
              => /\ last'.status = "NotRunning"
                 /\ playerInstances' = playerInstances
                 /\ browsers' = browsers
                 /\ reqs' = reqs]_vars

C12_Witness ==
    /\ last.op = "stop" /\ last.status = "NotRunning"
    /\ ~MapHas(playerInstances, last.name)
    /\ playerInstances # <<>>

EntriesFor(m, n) == {i \in 1..Len(m) : m[i].name = n}

\* C13: a launch answered LaunchFailed creates no registry entry and leaves
\* the account table and the persisted snapshot as they were; a launch that
\* succeeds leaves exactly one registry entry for the name, whose
\* audioDestination is the requested one or "default" and whose displayName is
\* the requested one or the account name, and does not touch the accounts.
C13_LaunchOutcome ==
    [][/\ (last'.op = "launch" /\ last'.status = "LaunchFailed")
              => /\ playerInstances' = playerInstances
                 /\ accounts' = accounts
                 /\ persisted' = persisted
       /\ \A s \in Slots :
              LaunchPageLoaded(s)
                  => LET n == reqs[s].name
                         e == MapGet(playerInstances', n)
                     IN /\ Cardinality(EntriesFor(playerInstances', n)) = 1
                        /\ \A k \in Names \ {n} :
                               EntriesFor(playerInstances', k) = EntriesFor(playerInstances, k)
                        /\ e.audioDestination =
                              IF reqs[s].audioDestination = Undefined
                              THEN "default" ELSE reqs[s].audioDestination
                        /\ e.displayName =
                              IF reqs[s].displayName = Undefined
                              THEN n ELSE reqs[s].displayName
                        /\ accounts' = accounts
                        /\ persisted' = persisted]_vars

C13_Witness ==
    /\ LaunchAnswered
    /\ Cardinality(EntriesFor(playerInstances, last.name)) = 1
    /\ MapGet(playerInstances, last.name).audioDestination = "default"
    /\ MapGet(playerInstances, last.name).displayName = last.name

\* C14 (as stated): a successful refresh whose response has no refresh token
\* keeps the stored refreshToken; one whose response carries a string as
\* refresh token stores that string.
C14_StringRefreshTokenReplaces ==
    [][\A s \in Slots : \A o \in ProviderOutcomes :
          (TokenRefreshDone(s, o) /\ last'.status = "ok")
              => LET n == reqs[s].name IN
                 accounts'[n].refreshToken =
                     IF IsString(o.refresh_token)
                     THEN o.refresh_token ELSE accounts[n].refreshToken]_vars

\* C14 (amended): a successful refresh whose response has no refresh token,
\* or the empty string as refresh token, keeps the stored refreshToken; one
\* whose response carries a non-empty string stores that string.
C14_NonEmptyRefreshTokenReplaces ==
    [][\A s \in Slots : \A o \in ProviderOutcomes :
          (TokenRefreshDone(s, o) /\ last'.status = "ok")
              => LET n == reqs[s].name IN
                 accounts'[n].refreshToken =
                     IF IsString(o.refresh_token) /\ o.refresh_token # ""
                     THEN o.refresh_token ELSE accounts[n].refreshToken]_vars

C14_Witness ==
    /\ last.op = "refresh" /\ last.status = "ok" /\ last.token = "tok1"
    /\ accounts[last.name].token = "tok1"
    /\ accounts[last.name].refreshToken = "ref2"

\* C15: when each request is answered before the next is sent,
\*   - registering a new name leaves one listed account of that name, not
\*     authenticated (the only listed account if none was registered before);
\*   - an exchange that returned an access token leaves the account
\*     authenticated with a token and an expiresAt;
\*   - a launch that succeeds leaves exactly one registry entry for the name;
\*   - a launch right after it for the same name is answered AlreadyRunning;
\*   - a stop that succeeds removes the entry (the registry is empty if it
\*     held no other entry);
\*   - a stop right after it for the same name is answered NotRunning.
C15_SequentialScenario ==
    [][/\ \A body \in RegisterBodies :
              (Register(body) /\ last'.status = "ok")
                  => /\ {a \in accountList(accounts', playerInstances') : a.name = body.name}
                            = {[name |-> body.name, authenticated |-> FALSE,
                                hasPlayer |-> MapHas(playerInstances, body.name)]}
                     /\ Cardinality(accountList(accounts', playerInstances'))
                            = Cardinality(accountList(accounts, playerInstances)) + 1
       /\ \A s \in Slots : \A o \in ProviderOutcomes :
              (CallbackDone(s, o) /\ o.kind = "body" /\ IsString(o.access_token))
                  => LET acc == accounts'[reqs[s].name] IN
                     /\ acc.authenticated
                     /\ acc.token # Null
                     /\ ExpiresAtOf(acc) # UndefinedNum
       /\ \A s \in Slots :
              LaunchPageLoaded(s)
                  => Cardinality(EntriesFor(playerInstances', reqs[s].name)) = 1
       /\ \A n \in Names : \A body \in LaunchBodies :
              (LaunchRequest(n, body) /\ LaunchAnswered /\ last.name = n)
                  => /\ last'.status = "AlreadyRunning"
                     /\ browsers' = browsers
                     /\ playerInstances' = playerInstances
       /\ \A s \in Slots :
              StopClosed(s)
                  => /\ last'.status = "ok"
                     /\ ~MapHas(playerInstances', reqs[s].name)
                     /\ Len(playerInstances) = 1 => playerInstances' = <<>>
       /\ \A n \in Names :
              (StopRequest(n) /\ last.op = "stop" /\ last.status = "ok" /\ last.name = n)
                  => last'.status = "NotRunning"]_vars

\* the end of the scenario: one account, authenticated; its process was
\* launched and has terminated; the registry is empty; the last of the six
\* requests was a stop answered NotRunning
C15_Witness ==
    /\ nreq = 0
    /\ last.op = "stop" /\ last.status = "NotRunning"
    /\ Has(accounts, last.name)
    /\ accountList(accounts, playerInstances)
           = {[name |-> last.name, authenticated |-> TRUE, hasPlayer |-> FALSE]}
    /\ accounts[last.name].token # Null
    /\ playerInstances = <<>>
    /\ Len(browsers) = 1
    /\ browsers[1].name = last.name /\ ~browsers[1].alive

\* the values the clock takes
Times == {StartTime + k * TickMs : k \in 0..MaxTicks}

\* token and expiresAt of the record are those of one provider response,
\* stored at one time
WrittenTogether(acc) ==
    \E o \in ProviderOutcomes : \E t \in Times :
        /\ ~Throws(o)
        /\ acc.token = (IF o.kind = "body" /\ IsString(o.access_token)
                        THEN o.access_token ELSE Null)
        /\ acc.expiresAt = t + (IF o.kind = "body" /\ IsNumber(o.expires_in)
                                THEN o.expires_in ELSE DefaultExpiresIn) * 1000

\* C16: a refresh that succeeds stores the token and the expiresAt of its
\* response (and the refresh token, if one came) in one step and writes the
\* snapshot in that step; in no state does an account hold the token of one
\* response with the expiresAt of another; the token answered is the token
\* stored when the answer is sent.
C16_RefreshStoresPairAtOnce ==
    [][/\ \A n \in DOMAIN accounts' :
              "expiresAt" \in DOMAIN accounts'[n] => WrittenTogether(accounts'[n])
       /\ \A s \in Slots : \A o \in ProviderOutcomes :
              (TokenRefreshDone(s, o) /\ last'.status = "ok")
                  => LET n == reqs[s].name IN
                     /\ accounts'[n].token =
                            (IF IsString(o.access_token) THEN o.access_token ELSE Null)
                     /\ accounts'[n].expiresAt =
                            now + (IF IsNumber(o.expires_in)
                                   THEN o.expires_in ELSE DefaultExpiresIn) * 1000
                     /\ (Truthy(o.refresh_token) /\ IsString(o.refresh_token))
                            => accounts'[n].refreshToken = o.refresh_token
                     /\ persisted' = saveTokens(accounts')
                     /\ last'.token = accounts'[n].token
                     /\ reqs'[s] = Idle]_vars

C16_Witness ==
    /\ last.op = "refresh" /\ last.status = "ok"
    /\ last.token = "tok1" /\ accounts[last.name].token = "tok1"
    /\ accounts[last.name].refreshToken = "ref1"
    /\ accounts[last.name].expiresAt = now + 600 * 1000
    /\ now > StartTime

\* the suspended token requests for account n
PendingRefreshes(rs, n) == {s \in Slots : rs[s].kind = "token" /\ rs[s].name = n}

\* C17: a token request that finds the account in need of a refresh while
\* another refresh for the same account is awaited issues a refresh call of
\* its own; each refresh that completes is answered by its own response alone
\* (it succeeds whenever the provider returned a body) and stores the token
\* and expiresAt of that response over whatever the other stored, so the
\* stored pair is that of the response processed last.
C17_ConcurrentRefreshLastWriterWins ==
    [][/\ \A n \in Names :
              (/\ TokenRequest(n)
               /\ PendingRefreshes(reqs, n) # {}
               /\ Has(accounts, n)
               /\ accounts[n].authenticated /\ Truthy(accounts[n].token)
               /\ Truthy(accounts[n].refreshToken)
               /\ now + bufferTime >= ExpiresAtOf(accounts[n]))
                  => /\ last'.status = "pending"
                     /\ Cardinality(PendingRefreshes(reqs', n))
                            = Cardinality(PendingRefreshes(reqs, n)) + 1
       /\ \A s \in Slots : \A o \in ProviderOutcomes :
              (TokenRefreshDone(s, o) /\ o.kind = "body")
                  => LET n == reqs[s].name IN
                     /\ last'.status = "ok"
                     /\ last'.token = (IF IsString(o.access_token)
                                       THEN o.access_token ELSE Null)
                     /\ accounts'[n].token = last'.token
                     /\ accounts'[n].expiresAt =
                            now + (IF IsNumber(o.expires_in)
                                   THEN o.expires_in ELSE DefaultExpiresIn) * 1000
                     /\ PendingRefreshes(reqs', n) = PendingRefreshes(reqs, n) \ {s}]_vars

\* one of two concurrent refreshes has stored "tok1"; the other, still
\* awaited, was issued with the same refresh token
C17_Witness ==
    /\ last.op = "refresh" /\ last.status = "ok" /\ last.token = "tok1"
    /\ accounts[last.name].token = "tok1"
    /\ accounts[last.name].refreshToken = "ref1"
    /\ \E s \in PendingRefreshes(reqs, last.name) : reqs[s].refreshToken = "ref2"

\* C18: launch answers AccountNotFound for a name with no account;
\* NotAuthenticated for an account that is not authenticated or has no token,
\* whether or not the registry holds an entry for the name; AlreadyRunning
\* only for an account that passed both checks and has a registry entry; and
\* in these three cases it starts no process and suspends nothing.
C18_LaunchCheckOrder ==
    [][\A n \in Names : \A body \in LaunchBodies :
          LaunchRequest(n, body)
              => /\ last'.status =
                       IF ~Has(accounts, n) THEN "AccountNotFound"
                       ELSE IF ~accounts[n].authenticated \/ ~Truthy(accounts[n].token)
                            THEN "NotAuthenticated"
                       ELSE IF MapHas(playerInstances, n) THEN "AlreadyRunning"
                       ELSE "pending"
                 /\ last'.status # "pending"
                       => /\ browsers' = browsers
                          /\ reqs' = reqs
                          /\ playerInstances' = playerInstances
                          /\ accounts' = accounts]_vars

\* a launch answered NotAuthenticated while the registry holds an entry for
\* the name
C18_Witness ==
    /\ last.op = "launch" /\ last.status = "NotAuthenticated"
    /\ MapHas(playerInstances, last.name)
    /\ AllIdle

\* C19: a token request for an account whose authenticated flag is set and
\* whose expiresAt lies more than the buffer ahead is answered with the stored
\* token, issues no refresh call and leaves the account table and the
\* snapshot as they were.
C19_FreshTokenReturnedUnchanged ==
    [][\A n \in Names :
          (/\ TokenRequest(n)
           /\ Has(accounts, n)
           /\ accounts[n].authenticated
           /\ "expiresAt" \in DOMAIN accounts[n]
           /\ now + bufferTime < accounts[n].expiresAt)
              => /\ last'.status = "ok"
                 /\ last'.token = accounts[n].token
                 /\ reqs' = reqs
                 /\ accounts' = accounts
                 /\ persisted' = persisted]_vars

\* C20: a token request is answered NotAuthenticated for an account whose
\* authenticated flag is not set, and NoRefreshToken for an account whose
\* flag is set, whose expiresAt is passed or within the buffer and whose
\* refreshToken is null; neither issues a refresh call nor changes the account.
C20_TokenRequestRefusals ==
    [][\A n \in Names :
          (TokenRequest(n) /\ Has(accounts, n))
              => /\ ~accounts[n].authenticated
                       => /\ last'.status = "NotAuthenticated"
                          /\ reqs' = reqs /\ accounts' = accounts
                 /\ (/\ accounts[n].authenticated
                     /\ "expiresAt" \in DOMAIN accounts[n]
                     /\ now + bufferTime >= accounts[n].expiresAt
                     /\ accounts[n].refreshToken = Null)
                       => /\ last'.status = "NoRefreshToken"
                          /\ reqs' = reqs /\ accounts' = accounts]_vars

\* the accounts of table tbl that are authenticated
AuthenticatedIn(tbl) == {n \in DOMAIN tbl : tbl[n].authenticated}

\* C21: an account becomes authenticated only in the step that processes the
\* response of a code exchange that did not fail, for a callback whose state
\* names an account; a callback with no code, no state or a state naming no
\* account starts no exchange and changes neither the accounts nor the
\* snapshot, and neither does a callback whose exchange fails (transport
\* error, HTTP error status, unreadable body).
C21_AuthenticatedOnlyByExchange ==
    [][/\ AuthenticatedIn(accounts') # AuthenticatedIn(accounts)
              => \E s \in Slots : \E o \in ProviderOutcomes :
                     /\ CallbackDone(s, o)
                     /\ o.kind \notin {"transportError", "httpError", "badJson"}
                     /\ Has(accounts, reqs[s].name)
                     /\ AuthenticatedIn(accounts') = AuthenticatedIn(accounts) \cup {reqs[s].name}
       /\ \A code \in CallbackCodes : \A state \in CallbackStates :
              (/\ CallbackRequest(code, state)
               /\ (code = Undefined \/ state = Undefined \/ ~Has(accounts, state)))
                  => /\ last'.status = "BadRequest"
                     /\ reqs' = reqs
                     /\ accounts' = accounts
                     /\ persisted' = persisted
       /\ \A s \in Slots : \A o \in ProviderOutcomes :
              (/\ CallbackDone(s, o)
               /\ o.kind \in {"transportError", "httpError", "badJson"})
                  => /\ last'.status = "ExchangeFailed"
                     /\ accounts' = accounts
                     /\ persisted' = persisted]_vars

\* an exchange has failed for an account that is registered and not
\* authenticated, while another account is authenticated
C21_Witness ==
    /\ last.op = "callback" /\ last.status = "ExchangeFailed"
    /\ Has(accounts, last.name) /\ ~accounts[last.name].authenticated
    /\ AuthenticatedIn(accounts) # {}

\* C22: a code exchange or a refresh that succeeds leaves the account's
\* expiresAt at the time of the step plus expires_in seconds of the response
\* (3600 seconds if expires_in is not a number), and no other step changes
\* the expiresAt of any account.
C22_ExpiresAtFromExchangeOrRefresh ==
    [][/\ \A s \in Slots : \A o \in ProviderOutcomes :
              (/\ CallbackDone(s, o) \/ TokenRefreshDone(s, o)
               /\ last'.status = "ok")
                  => accounts'[reqs[s].name].expiresAt =
                         now + (IF o.kind = "body" /\ IsNumber(o.expires_in)
                                THEN o.expires_in ELSE DefaultExpiresIn) * 1000
       /\ \A n \in DOMAIN accounts :
              ExpiresAtOf(accounts'[n]) # ExpiresAtOf(accounts[n])
                  => /\ last'.op \in {"callback", "refresh"}
                     /\ last'.status = "ok"
                     /\ last'.name = n]_vars

\* the fields of a record that registration fixes
Registration(acc) ==
    [name |-> acc.name, clientId |-> acc.clientId,
     clientSecret |-> acc.clientSecret, redirectUri |-> acc.redirectUri]

\* C23: no step removes an account from the table or changes its name,
\* clientId, clientSecret or redirectUri.
C23_AccountsKeptAsRegistered ==
    [][\A n \in DOMAIN accounts :
          /\ Has(accounts', n)
          /\ Registration(accounts'[n]) = Registration(accounts[n])]_vars

\* an account registered with a redirect URI of its own has been through an
\* exchange and a refresh
C23_Witness ==
    /\ last.op = "refresh" /\ last.status = "ok"
    /\ accounts[last.name].token = last.token
    /\ Registration(accounts[last.name]) =
           [name |-> last.name, clientId |-> "X2", clientSecret |-> "Y2",
            redirectUri |-> "http://ha/cb"]

\* C24: a stop that completes removes only the registry entry it found when
\* it began: a stop that began against an earlier instance of the account
\* does not remove the entry that a launch has inserted since.
C24_StopRemovesOnlyItsOwnEntry ==
    [][\A s \in Slots :
          (/\ StopClosed(s)
           /\ MapHas(playerInstances, reqs[s].name))
              => MapGet(playerInstances, reqs[s].name).browser = reqs[s].browser]_vars

Next ==
    \/ Tick
    \/ \E body \in RegisterBodies : Register(body)
    \/ \E code \in CallbackCodes, state \in CallbackStates : CallbackRequest(code, state)
    \/ \E s \in Slots, o \in ProviderOutcomes : CallbackDone(s, o)
    \/ \E n \in Names : TokenRequest(n)
    \/ \E s \in Slots, o \in ProviderOutcomes : TokenRefreshDone(s, o)
    \/ \E n \in Names, body \in LaunchBodies : LaunchRequest(n, body)
    \/ \E s \in Slots : LaunchBrowserStarted(s)
    \/ \E s \in Slots : LaunchBrowserFailed(s)
    \/ \E s \in Slots : LaunchPageLoaded(s)
    \/ \E s \in Slots : LaunchPageFailed(s)
    \/ \E n \in Names : StopRequest(n)
    \/ \E s \in Slots : StopClosed(s)
    \/ \E s \in Slots, gone \in BOOLEAN : StopFailed(s, gone)
    \/ Sigint
    \/ ShutdownClosed
    \/ ShutdownCloseFailed(TRUE)
    \/ ShutdownCloseFailed(FALSE)

Spec == Init /\ [][Next]_vars

\* the process restarted on the stored accounts, serving the launch and stop
\* endpoints and the signal
NextRestart ==
    \/ \E n \in Names, body \in LaunchBodies : LaunchRequest(n, body)
    \/ \E s \in Slots : LaunchBrowserStarted(s)
    \/ \E s \in Slots : LaunchBrowserFailed(s)
    \/ \E s \in Slots : LaunchPageLoaded(s)
    \/ \E s \in Slots : LaunchPageFailed(s)
    \/ \E n \in Names : StopRequest(n)
    \/ \E s \in Slots : StopClosed(s)
    \/ \E s \in Slots, gone \in BOOLEAN : StopFailed(s, gone)
    \/ Sigint
    \/ ShutdownClosed
    \/ ShutdownCloseFailed(TRUE)
    \/ ShutdownCloseFailed(FALSE)

SpecRestart == InitRestart /\ [][NextRestart]_vars

\* no launch handler is suspended at an await
NoLaunchPending == \A s \in Slots : reqs[s].kind # "launch"

\* the process restarted on the stored accounts, with clients that send no
\* launch while another launch is awaited: stops and launches interleave,
\* launches do not
NextOneLaunch ==
    \/ NoLaunchPending /\ \E n \in Names, body \in LaunchBodies : LaunchRequest(n, body)
    \/ \E s \in Slots : LaunchBrowserStarted(s)
    \/ \E s \in Slots : LaunchBrowserFailed(s)
    \/ \E s \in Slots : LaunchPageLoaded(s)
    \/ \E s \in Slots : LaunchPageFailed(s)
    \/ \E n \in Names : StopRequest(n)
    \/ \E s \in Slots : StopClosed(s)
    \/ \E s \in Slots, gone \in BOOLEAN : StopFailed(s, gone)

SpecOneLaunch == InitRestart /\ [][NextOneLaunch]_vars

\* the requests to register, authenticate, launch and stop arrive one after
\* the other: a request is sent only once the one before it has been answered
NextSequential ==
    \/ AllIdle /\ \E body \in RegisterBodies : Register(body)
    \/ AllIdle /\ \E code \in CallbackCodes, state \in CallbackStates : CallbackRequest(code, state)
    \/ \E s \in Slots, o \in ProviderOutcomes : CallbackDone(s, o)
    \/ AllIdle /\ \E n \in Names, body \in LaunchBodies : LaunchRequest(n, body)
    \/ \E s \in Slots : LaunchBrowserStarted(s)
    \/ \E s \in Slots : LaunchBrowserFailed(s)
    \/ \E s \in Slots : LaunchPageLoaded(s)
    \/ \E s \in Slots : LaunchPageFailed(s)
    \/ AllIdle /\ \E n \in Names : StopRequest(n)
    \/ \E s \in Slots : StopClosed(s)
    \/ \E s \in Slots, gone \in BOOLEAN : StopFailed(s, gone)

SpecSequential == InitSequential /\ [][NextSequential]_vars
====
